---- MODULE Spec2Model ----
(***************************************************************************)
(* Model of apps/interpret_nn/tflite_parser.cpp: the Parser class that     *)
(* turns a flatbuffer tflite::Model into an interpret_nn Model (tensors    *)
(* and ops).                                                               *)
(*                                                                         *)
(* Conventions.                                                            *)
(*  - Vectors are sequences; the code's 0-based index i is position i+1.   *)
(*  - A Tensor* held by an op is a record [in_model, slot]: in_model says  *)
(*    the pointer is the address of result_.tensors[slot]; a pointer read  *)
(*    outside the vector is WildPtr.                                       *)
(*  - A nullable flatbuffer vector is a record [null, elems].               *)
(*  - Undefined behaviour is a choice among outcomes: a switch that falls  *)
(*    off the end of a value-returning function yields any value           *)
(*    (UndefinedReturn) or traps; an unchecked read outside a vector (the  *)
(*    tensor store, an index list, the buffer table, the operator-code     *)
(*    table) yields whatever memory holds there, or traps; a null          *)
(*    dereference traps.                                                   *)
(***************************************************************************)
EXTENDS Integers, Sequences, FiniteSets, TLC

VARIABLES model_, result_, pc, ret, error

vars == <<model_, result_, pc, ret, error>>

(***************************************************************************)
(* Bounds of the explored inputs.                                          *)
(***************************************************************************)
MaxTensors == 4

MaxOps == 2

MaxRank == 3

MaxSubgraphs == 2

(***************************************************************************)
(* Wire codes of the flatbuffer schema enumerations named in the switches. *)
(***************************************************************************)
TensorType_FLOAT32 == 0

TensorType_FLOAT16 == 1

TensorType_INT32 == 2

TensorType_UINT8 == 3

TensorType_INT64 == 4

TensorType_STRING == 5

TensorType_BOOL == 6

TensorType_INT16 == 7

TensorType_COMPLEX64 == 8

TensorType_INT8 == 9

TensorType_FLOAT64 == 10

TensorType_COMPLEX128 == 11

Padding_SAME == 0

Padding_VALID == 1

ActivationFunctionType_NONE == 0

ActivationFunctionType_RELU == 1

ActivationFunctionType_RELU_N1_TO_1 == 2

ActivationFunctionType_RELU6 == 3

ActivationFunctionType_TANH == 4

ActivationFunctionType_SIGN_BIT == 5

BuiltinOperator_ADD == 0

BuiltinOperator_CONV_2D == 3

BuiltinOperator_DEPTHWISE_CONV_2D == 4

BuiltinOperator_CUSTOM == 32

BuiltinOperator_PAD == 34

(***************************************************************************)
(* Outcomes of undefined behaviour.                                        *)
(***************************************************************************)
Trap == "<trap>"

Garbage == "<garbage>"

WildPtr == [in_model |-> FALSE, slot |-> 0]

NNTypes ==
    {"Float32", "Float16", "Int32", "UInt8", "Int64", "String", "Bool",
     "Int16", "Complex64", "Int8", "Float64", "Complex128"}

Paddings == {"Same", "Valid"}

ActivationFunctions == {"None", "Relu", "ReluN1To1", "Relu6", "Tanh", "SignBit"}

\* Control reaches the closing brace of a value-returning function: the
\* caller receives some enumerator, some other bit pattern, or the
\* program traps.
UndefinedReturn(enumerators) == enumerators \cup {Garbage, Trap}

(***************************************************************************)
(* Enumeration translators.  Each returns the set of possible results.     *)
(***************************************************************************)
ParseActivationFunction(f) ==
    CASE f = ActivationFunctionType_NONE -> {"None"}
      [] f = ActivationFunctionType_RELU -> {"Relu"}
      [] f = ActivationFunctionType_RELU_N1_TO_1 -> {"ReluN1To1"}
      [] f = ActivationFunctionType_RELU6 -> {"Relu6"}
      [] f = ActivationFunctionType_TANH -> {"Tanh"}
      [] f = ActivationFunctionType_SIGN_BIT -> {"SignBit"}
      [] OTHER -> UndefinedReturn(ActivationFunctions)

ParseType(t) ==
    CASE t = TensorType_FLOAT32 -> {"Float32"}
      [] t = TensorType_FLOAT16 -> {"Float16"}
      [] t = TensorType_INT32 -> {"Int32"}
      [] t = TensorType_UINT8 -> {"UInt8"}
      [] t = TensorType_INT64 -> {"Int64"}
      [] t = TensorType_STRING -> {"String"}
      [] t = TensorType_BOOL -> {"Bool"}
      [] t = TensorType_INT16 -> {"Int16"}
      [] t = TensorType_COMPLEX64 -> {"Complex64"}
      [] t = TensorType_INT8 -> {"Int8"}
      [] t = TensorType_FLOAT64 -> {"Float64"}
      [] t = TensorType_COMPLEX128 -> {"Complex128"}
      [] OTHER -> UndefinedReturn(NNTypes)

ParsePadding(p) ==
    CASE p = Padding_SAME -> {"Same"}
      [] p = Padding_VALID -> {"Valid"}
      [] OTHER -> UndefinedReturn(Paddings)

(***************************************************************************)
(* GetBuiltinCode: the larger of the two fields of an operator code.       *)
(***************************************************************************)
Max(a, b) == IF a < b THEN b ELSE a

GetBuiltinCodeNewFieldOnly(op_code) == op_code.builtin_code

GetBuiltinCode(op_code) ==
    Max(op_code.builtin_code, op_code.deprecated_builtin_code)

(***************************************************************************)
(* Flatbuffer accessors.  A nullable vector field is [null, elems].        *)
(***************************************************************************)
Vec(s) == [null |-> FALSE, elems |-> s]

NullVec == [null |-> TRUE, elems |-> <<>>]

\* A nullable string field.
Str(s) == [null |-> FALSE, str |-> s]

NullStr == [null |-> TRUE, str |-> ""]

Trapped == [trap |-> TRUE]

(***************************************************************************)
(* ParseTensor, in the three parts of its body.                            *)
(***************************************************************************)
\* Lines 105-112: the constant payload, as the set of outcomes.  Slot 0 is
\* never looked up; another slot is copied when it carries data.  Get() of
\* a slot outside the table traps where FLATBUFFERS_ASSERT is compiled in;
\* elsewhere it reads past the table, and the payload is whatever byte
\* string the word found there leads to, of any length and contents
\* (possibly none, possibly the bytes of another slot), or the read traps.
\* Garbage stands for that arbitrary byte string.
StrayBytes == {Garbage}

Payload(bytes) == [trap |-> FALSE, data |-> bytes]

TensorDataIgnoresSlot(t, buffers) ==
    IF t.buffer + 1 \in DOMAIN buffers
    THEN IF ~buffers[t.buffer + 1].data.null
         THEN {Payload(buffers[t.buffer + 1].data.elems)}
         ELSE {Payload(<<>>)}
    ELSE {Trapped} \cup {Payload(bytes) : bytes \in StrayBytes}

TensorData(t, buffers) ==
    IF t.buffer # 0
    THEN IF t.buffer + 1 \in DOMAIN buffers
         THEN LET buffer == buffers[t.buffer + 1].data IN
              IF ~buffer.null
              THEN {Payload(buffer.elems)}
              ELSE {Payload(<<>>)}
         ELSE {Trapped} \cup {Payload(bytes) : bytes \in StrayBytes}
    ELSE {Payload(<<>>)}

\* Lines 114-119: shape[i].extent = t->shape()->Get(size - 1 - i), with the
\* code's i running over 0..size-1 (position i+1 here).
TensorShapeSameOrder(d) ==
    [i \in 1..Len(d) |-> [min |-> 0, extent |-> d[i], stride |-> 0]]

TensorShape(d) ==
    [i \in 1..Len(d) |->
        [min |-> 0, extent |-> d[(Len(d) - 1 - (i - 1)) + 1], stride |-> 0]]

\* Lines 121-122: shape.size() - quantized_dimension() for a size n and a
\* 32-bit axis k.  The subtraction is done in size_t (modulo 2^64) and the
\* result is stored in the 32-bit signed dimension field, which keeps its
\* low 32 bits: n - k when that lies in INT32_MIN..INT32_MAX, and
\* n - k - 2^32 when n - k exceeds INT32_MAX (k within n of INT32_MIN).
\* The second case is written (n - (k - INT32_MIN)) + INT32_MIN so that no
\* intermediate value leaves the 32-bit range.
INT32_MAX == 2147483647

INT32_MIN == -INT32_MAX - 1

AxisFromEnd(n, k) ==
    IF k >= n - INT32_MAX
    THEN n - k
    ELSE (n - (k - INT32_MIN)) + INT32_MIN

\* Lines 120-132.  dimension is assigned only when the descriptor carries
\* quantization; otherwise the QuantizationInfo stays default-constructed.
TensorQuantization(q, n) ==
    IF ~q.null
    THEN [dimension_assigned |-> TRUE,
          dimension |-> AxisFromEnd(n, q.quantized_dimension),
          scale |-> IF ~q.scale.null THEN q.scale.elems ELSE <<>>,
          zero |-> IF ~q.zero_point.null THEN q.zero_point.elems ELSE <<>>]
    ELSE [dimension_assigned |-> FALSE, dimension |-> 0,
          scale |-> <<>>, zero |-> <<>>]

\* Lines 104-136.  The set of outcomes of one call: a Tensor, or a trap
\* (a null shape is dereferenced at line 114, a null name at line 134).
ParseTensor(t, buffers) ==
    LET payloads == TensorData(t, buffers) IN
    IF t.shape.null \/ t.name.null
    THEN {Trapped}
    ELSE LET shape == TensorShape(t.shape.elems)
             quantization == TensorQuantization(t.quantization, Len(shape))
             types == ParseType(t.type)
         IN  {[trap |-> FALSE,
               tensor |-> [name |-> t.name.str, type |-> ty, shape |-> shape,
                           data |-> payload.data,
                           quantization |-> quantization]] :
                  payload \in payloads \ {Trapped}, ty \in types \ {Trap}}
             \cup (IF Trap \in types \/ Trapped \in payloads
                   THEN {Trapped} ELSE {})

(***************************************************************************)
(* Tensor references of an op.                                             *)
(***************************************************************************)
\* result_.tensors[v->Get(i)].get(): the outcomes of reading entry i of
\* the index list v and using it to index a tensor store holding n
\* tensors.  Neither read is checked (Get checks i < size() only where
\* FLATBUFFERS_ASSERT is compiled in, and then traps).  An entry past the
\* end of the list is whatever word follows the list in the buffer; an
\* index outside 0..n-1 reads the vector's spare capacity or the heap
\* beyond it, where a stale pointer may be the address of a tensor of this
\* Model.  Either way the result is any tensor of the store, a pointer
\* to none of them, or a trap.
StrayPointers(n) ==
    {[in_model |-> TRUE, slot |-> k] : k \in 0..(n - 1)} \cup {WildPtr, Trapped}

TensorAt(n, v, i) ==
    IF i + 1 \in DOMAIN v
    THEN IF v[i + 1] \in 0..(n - 1)
         THEN {[in_model |-> TRUE, slot |-> v[i + 1]]}
         ELSE StrayPointers(n)
    ELSE StrayPointers(n)

OpBuilt(o) == [trap |-> FALSE, fatal |-> FALSE, op |-> o]

Fatal(msg) == [trap |-> FALSE, fatal |-> TRUE, error |-> msg]

\* builtin_options_as_X() is null unless the options table is an X.
OptionsAs(op, type) == op.builtin_options.type = type

(***************************************************************************)
(* Operator parameter extractors: each returns its set of outcomes.        *)
(***************************************************************************)
ParseConv2DSwapped(op, n) ==
    IF ~OptionsAs(op, "Conv2DOptions")
    THEN {Trapped}
    ELSE LET options == op.builtin_options
             activations == ParseActivationFunction(options.fused_activation_function)
             paddings == ParsePadding(options.padding)
             inputs == TensorAt(n, op.inputs, 0)
             filters == TensorAt(n, op.inputs, 1)
             biases == TensorAt(n, op.inputs, 2)
             outputs == TensorAt(n, op.outputs, 0)
         IN  {OpBuilt([kind |-> "Conv2DOp", input |-> f, filter |-> i,
                       bias |-> b, output |-> o,
                       stride |-> <<options.stride_w, options.stride_h>>,
                       dilation |-> <<options.dilation_w_factor,
                                      options.dilation_h_factor>>,
                       padding |-> p, activation |-> a]) :
                  <<a, p, i, f, b, o>> \in
                      (activations \ {Trap}) \X (paddings \ {Trap})
                      \X (inputs \ {Trapped}) \X (filters \ {Trapped})
                      \X (biases \ {Trapped}) \X (outputs \ {Trapped})}
             \cup (IF Trap \in activations \cup paddings
                      \/ Trapped \in inputs \cup filters \cup biases \cup outputs
                   THEN {Trapped} ELSE {})

ParseConv2D(op, n) ==
    IF ~OptionsAs(op, "Conv2DOptions")
    THEN {Trapped}
    ELSE LET options == op.builtin_options
             dilation_factor == <<options.dilation_w_factor,
                                  options.dilation_h_factor>>
             activations == ParseActivationFunction(options.fused_activation_function)
             paddings == ParsePadding(options.padding)
             stride == <<options.stride_w, options.stride_h>>
             inputs == TensorAt(n, op.inputs, 0)
             filters == TensorAt(n, op.inputs, 1)
             biases == TensorAt(n, op.inputs, 2)
             outputs == TensorAt(n, op.outputs, 0)
         IN  {OpBuilt([kind |-> "Conv2DOp", input |-> i, filter |-> f,
                       bias |-> b, output |-> o, stride |-> stride,
                       dilation |-> dilation_factor,
                       padding |-> p, activation |-> a]) :
                  <<a, p, i, f, b, o>> \in
                      (activations \ {Trap}) \X (paddings \ {Trap})
                      \X (inputs \ {Trapped}) \X (filters \ {Trapped})
                      \X (biases \ {Trapped}) \X (outputs \ {Trapped})}
             \cup (IF Trap \in activations \cup paddings
                      \/ Trapped \in inputs \cup filters \cup biases \cup outputs
                   THEN {Trapped} ELSE {})

ParseDepthwiseConv2D(op, n) ==
    IF ~OptionsAs(op, "DepthwiseConv2DOptions")
    THEN {Trapped}
    ELSE LET options == op.builtin_options
             dilation_factor == <<options.dilation_w_factor,
                                  options.dilation_h_factor>>
             depth_multiplier == options.depth_multiplier
             activations == ParseActivationFunction(options.fused_activation_function)
             paddings == ParsePadding(options.padding)
             stride == <<options.stride_w, options.stride_h>>
             inputs == TensorAt(n, op.inputs, 0)
             filters == TensorAt(n, op.inputs, 1)
             biases == TensorAt(n, op.inputs, 2)
             outputs == TensorAt(n, op.outputs, 0)
         IN  {OpBuilt([kind |-> "DepthwiseConv2DOp", input |-> i, filter |-> f,
                       bias |-> b, output |-> o,
                       depth_multiplier |-> depth_multiplier,
                       stride |-> stride, dilation |-> dilation_factor,
                       padding |-> p, activation |-> a]) :
                  <<a, p, i, f, b, o>> \in
                      (activations \ {Trap}) \X (paddings \ {Trap})
                      \X (inputs \ {Trapped}) \X (filters \ {Trapped})
                      \X (biases \ {Trapped}) \X (outputs \ {Trapped})}
             \cup (IF Trap \in activations \cup paddings
                      \/ Trapped \in inputs \cup filters \cup biases \cup outputs
                   THEN {Trapped} ELSE {})

ParsePad(op, n) ==
    LET inputs == TensorAt(n, op.inputs, 0)
        paddings == TensorAt(n, op.inputs, 1)
        outputs == TensorAt(n, op.outputs, 0)
    IN  {OpBuilt([kind |-> "PadOp", input |-> i, padding |-> p, output |-> o]) :
             <<i, p, o>> \in (inputs \ {Trapped}) \X (paddings \ {Trapped})
                             \X (outputs \ {Trapped})}
        \cup (IF Trapped \in inputs \cup paddings \cup outputs
              THEN {Trapped} ELSE {})

ParseAdd(op, n) ==
    IF ~OptionsAs(op, "AddOptions")
    THEN {Trapped}
    ELSE LET options == op.builtin_options
             input1s == TensorAt(n, op.inputs, 0)
             input2s == TensorAt(n, op.inputs, 1)
             outputs == TensorAt(n, op.outputs, 0)
             activations == ParseActivationFunction(options.fused_activation_function)
         IN  {OpBuilt([kind |-> "AddOp", input1 |-> i1, input2 |-> i2,
                       output |-> o, activation |-> a]) :
                  <<i1, i2, o, a>> \in
                      (input1s \ {Trapped}) \X (input2s \ {Trapped})
                      \X (outputs \ {Trapped}) \X (activations \ {Trap})}
             \cup (IF Trap \in activations
                      \/ Trapped \in input1s \cup input2s \cup outputs
                   THEN {Trapped} ELSE {})

(***************************************************************************)
(* ParseOp: opcode lookup, the CUSTOM assertion and the dispatch.          *)
(***************************************************************************)
\* Lines 220-221: EnumNameBuiltinOperator.  The names of the schema's
\* BuiltinOperator enumeration, code c at position c + 1; a value outside
\* the enumeration has the empty name.
BuiltinOperator_MIN == 0

BuiltinOperator_MAX == 128

BuiltinOperatorNames ==
    <<"ADD", "AVERAGE_POOL_2D", "CONCATENATION", "CONV_2D",
      "DEPTHWISE_CONV_2D", "DEPTH_TO_SPACE", "DEQUANTIZE",
      "EMBEDDING_LOOKUP", "FLOOR", "FULLY_CONNECTED", "HASHTABLE_LOOKUP",
      "L2_NORMALIZATION", "L2_POOL_2D", "LOCAL_RESPONSE_NORMALIZATION",
      "LOGISTIC", "LSH_PROJECTION", "LSTM", "MAX_POOL_2D", "MUL", "RELU",
      "RELU_N1_TO_1", "RELU6", "RESHAPE", "RESIZE_BILINEAR", "RNN",
      "SOFTMAX", "SPACE_TO_DEPTH", "SVDF", "TANH", "CONCAT_EMBEDDINGS",
      "SKIP_GRAM", "CALL", "CUSTOM", "EMBEDDING_LOOKUP_SPARSE", "PAD",
      "UNIDIRECTIONAL_SEQUENCE_RNN", "GATHER", "BATCH_TO_SPACE_ND",
      "SPACE_TO_BATCH_ND", "TRANSPOSE", "MEAN", "SUB", "DIV", "SQUEEZE",
      "UNIDIRECTIONAL_SEQUENCE_LSTM", "STRIDED_SLICE",
      "BIDIRECTIONAL_SEQUENCE_RNN", "EXP", "TOPK_V2", "SPLIT",
      "LOG_SOFTMAX", "DELEGATE", "BIDIRECTIONAL_SEQUENCE_LSTM", "CAST",
      "PRELU", "MAXIMUM", "ARG_MAX", "MINIMUM", "LESS", "NEG", "PADV2",
      "GREATER", "GREATER_EQUAL", "LESS_EQUAL", "SELECT", "SLICE", "SIN",
      "TRANSPOSE_CONV", "SPARSE_TO_DENSE", "TILE", "EXPAND_DIMS", "EQUAL",
      "NOT_EQUAL", "LOG", "SUM", "SQRT", "RSQRT", "SHAPE", "POW", "ARG_MIN",
      "FAKE_QUANT", "REDUCE_PROD", "REDUCE_MAX", "PACK", "LOGICAL_OR",
      "ONE_HOT", "LOGICAL_AND", "LOGICAL_NOT", "UNPACK", "REDUCE_MIN",
      "FLOOR_DIV", "REDUCE_ANY", "SQUARE", "ZEROS_LIKE", "FILL",
      "FLOOR_MOD", "RANGE", "RESIZE_NEAREST_NEIGHBOR", "LEAKY_RELU",
      "SQUARED_DIFFERENCE", "MIRROR_PAD", "ABS", "SPLIT_V", "UNIQUE",
      "CEIL", "REVERSE_V2", "ADD_N", "GATHER_ND", "COS", "WHERE", "RANK",
      "ELU", "REVERSE_SEQUENCE", "MATRIX_DIAG", "QUANTIZE",
      "MATRIX_SET_DIAG", "ROUND", "HARD_SWISH", "IF", "WHILE",
      "NON_MAX_SUPPRESSION_V4", "NON_MAX_SUPPRESSION_V5", "SCATTER_ND",
      "SELECT_V2", "DENSIFY", "SEGMENT_SUM", "BATCH_MATMUL",
      "PLACEHOLDER_FOR_GREATER_OP_CODES", "CUMSUM">>

EnumNameBuiltinOperator(builtin_code) ==
    IF builtin_code \in BuiltinOperator_MIN..BuiltinOperator_MAX
    THEN BuiltinOperatorNames[builtin_code + 1]
    ELSE ""

\* Lines 209-222: the CUSTOM assertion and the switch.
Dispatch(op, builtin_code, n) ==
    IF ~(builtin_code # BuiltinOperator_CUSTOM)
    THEN {Fatal("builtin_code != tflite::BuiltinOperator_CUSTOM")}
    ELSE CASE builtin_code = BuiltinOperator_CONV_2D -> ParseConv2D(op, n)
           [] builtin_code = BuiltinOperator_DEPTHWISE_CONV_2D ->
                  ParseDepthwiseConv2D(op, n)
           [] builtin_code = BuiltinOperator_PAD -> ParsePad(op, n)
           [] builtin_code = BuiltinOperator_ADD -> ParseAdd(op, n)
           [] OTHER -> {Fatal("Unsupported op "
                              \o EnumNameBuiltinOperator(builtin_code))}

\* The codes GetBuiltinCode may produce from the memory past the table:
\* any value.  Every code of the enumeration is listed; the values outside
\* it all take the same path (the default case, with the empty name) and
\* are stood for by the two nearest ones.
StrayCodes == (BuiltinOperator_MIN - 1)..(BuiltinOperator_MAX + 1)

\* Lines 201-223.  opcodes->Get(opcode_index) is checked only where
\* FLATBUFFERS_ASSERT is compiled in (a trap); elsewhere an index outside
\* the table reads an operator code from the memory past it.
ParseOp(op, opcodes, n) ==
    IF op.opcode_index + 1 \in DOMAIN opcodes
    THEN Dispatch(op, GetBuiltinCode(opcodes[op.opcode_index + 1]), n)
    ELSE {Trapped} \cup UNION {Dispatch(op, c, n) : c \in StrayCodes}

(***************************************************************************)
(* Inputs: the flatbuffer models explored.                                 *)
(***************************************************************************)
SeqsUpTo(S, n) == UNION {[1..k -> S] : k \in 0..n}

NoQuantization ==
    [null |-> TRUE, quantized_dimension |-> 0,
     scale |-> NullVec, zero_point |-> NullVec]

Quantization(k, scale, zero_point) ==
    [null |-> FALSE, quantized_dimension |-> k,
     scale |-> scale, zero_point |-> zero_point]

TensorDesc(name, type, shape, buffer, quantization) ==
    [name |-> name, type |-> type, shape |-> shape, buffer |-> buffer,
     quantization |-> quantization]

\* Storage-slot tables: slot 0 empty as the schema reserves it, or slot 0
\* carrying bytes; then a slot with bytes, a slot without data, a slot with
\* a zero-length vector.
BufferTables ==
    {<<[data |-> s0], [data |-> Vec(<<17, 34, 51>>)], [data |-> NullVec],
       [data |-> Vec(<<>>)]>> : s0 \in {NullVec, Vec(<<9>>)}}

StandardBuffers ==
    <<[data |-> NullVec], [data |-> Vec(<<17, 34, 51>>)], [data |-> NullVec],
      [data |-> Vec(<<>>)]>>

\* The operator-code table: CONV_2D, CONV_2D written by an older schema
\* (the code in the deprecated field only), DEPTHWISE_CONV_2D, PAD, ADD,
\* CUSTOM, CUSTOM of an older schema, AVERAGE_POOL_2D (1), and CUMSUM (128,
\* whose deprecated field holds the placeholder 127).
OperatorCodes ==
    <<[builtin_code |-> BuiltinOperator_CONV_2D,
       deprecated_builtin_code |-> BuiltinOperator_CONV_2D],
      [builtin_code |-> 0,
       deprecated_builtin_code |-> BuiltinOperator_CONV_2D],
      [builtin_code |-> BuiltinOperator_DEPTHWISE_CONV_2D,
       deprecated_builtin_code |-> BuiltinOperator_DEPTHWISE_CONV_2D],
      [builtin_code |-> BuiltinOperator_PAD,
       deprecated_builtin_code |-> BuiltinOperator_PAD],
      [builtin_code |-> BuiltinOperator_ADD,
       deprecated_builtin_code |-> BuiltinOperator_ADD],
      [builtin_code |-> BuiltinOperator_CUSTOM,
       deprecated_builtin_code |-> BuiltinOperator_CUSTOM],
      [builtin_code |-> 0,
       deprecated_builtin_code |-> BuiltinOperator_CUSTOM],
      [builtin_code |-> 1, deprecated_builtin_code |-> 1],
      [builtin_code |-> 128, deprecated_builtin_code |-> 127]>>

\* Tensor descriptors for the single-tensor inputs: every wire type code
\* and two outside the enumeration; every shape up to MaxRank, or none;
\* every storage slot and one past the table; every quantization block
\* with an axis around 0..rank; a name or none.  AxisSweep: axes at both
\* ends of the 32-bit range, for every shape.
TypeCodes == (TensorType_FLOAT32 - 1)..(TensorType_COMPLEX128 + 2)

Extents == 1..3

Shapes == {Vec(d) : d \in SeqsUpTo(Extents, MaxRank)}

Quantizations ==
    {NoQuantization}
    \cup {Quantization(k, sz[1], sz[2]) :
            k \in (-1)..(MaxRank + 1),
            sz \in {<<NullVec, NullVec>>, <<Vec(<<5>>), NullVec>>,
                    <<NullVec, Vec(<<0>>)>>, <<Vec(<<5, 7>>), Vec(<<128, 3>>)>>}}

TypeSweep ==
    {TensorDesc(Str("t"), type, Vec(<<1, 4, 4, 3>>), 0, NoQuantization) :
        type \in TypeCodes}

FieldSweep ==
    {TensorDesc(name, TensorType_FLOAT32, shape, buffer, q) :
        name \in {Str("w"), NullStr}, shape \in Shapes \cup {NullVec},
        buffer \in 0..Len(StandardBuffers), q \in Quantizations}

AxisSweep ==
    {TensorDesc(Str("q"), TensorType_INT8, shape, 0,
                Quantization(k, Vec(<<5>>), Vec(<<0>>))) :
        shape \in Shapes, k \in {INT32_MIN, INT32_MIN + 1, INT32_MAX}}

\* Tensor descriptors for the multi-tensor graphs.
TensorA ==
    TensorDesc(Str("a"), TensorType_FLOAT32, Vec(<<1, 4, 4, 3>>), 0, NoQuantization)

TensorB ==
    TensorDesc(Str("b"), TensorType_INT8, Vec(<<3>>), 1,
               Quantization(0, Vec(<<5>>), Vec(<<0>>)))

GraphTensors == {TensorA, TensorB}

\* k tensors, alternately TensorA and TensorB.
AlternatingTensors(k) == [i \in 1..k |-> IF i % 2 = 1 THEN TensorA ELSE TensorB]

Options(type, dil, stride, padding, activation, depth_multiplier) ==
    [type |-> type, dilation_w_factor |-> dil[1], dilation_h_factor |-> dil[2],
     stride_w |-> stride[1], stride_h |-> stride[2], padding |-> padding,
     fused_activation_function |-> activation,
     depth_multiplier |-> depth_multiplier]

NoOptions == Options("NONE", <<0, 0>>, <<0, 0>>, 0, 0, 0)

OperatorDesc(opcode_index, inputs, outputs, builtin_options) ==
    [opcode_index |-> opcode_index, inputs |-> inputs, outputs |-> outputs,
     builtin_options |-> builtin_options]

\* CONV_2D with each recognized activation and both paddings.
ConvActivationOps ==
    {OperatorDesc(0, <<0, 1, 2>>, <<3>>,
        Options("Conv2DOptions", <<1, 1>>, <<1, 1>>, padding, activation, 0)) :
        padding \in {Padding_SAME, Padding_VALID},
        activation \in
            ActivationFunctionType_NONE..ActivationFunctionType_SIGN_BIT}

\* The operators of the graphs: CONV_2D, CONV_2D of an older schema, with
\* an unrecognized padding, with a short input list and with an
\* unrecognized activation; DEPTHWISE_CONV_2D; PAD, also with a negative
\* index; ADD with and without options; CUSTOM in both fields; two builtin
\* kinds the switch does not name; an operator whose opcode_index is one
\* past the operator-code table.
GraphOps ==
    {OperatorDesc(0, <<0, 1, 2>>, <<3>>,
        Options("Conv2DOptions", <<1, 1>>, <<1, 1>>, Padding_SAME,
                ActivationFunctionType_NONE, 0)),
     OperatorDesc(1, <<2, 0, 1>>, <<0>>,
        Options("Conv2DOptions", <<1, 2>>, <<2, 1>>, Padding_VALID,
                ActivationFunctionType_RELU6, 0)),
     OperatorDesc(0, <<0, 1, 2>>, <<3>>,
        Options("Conv2DOptions", <<1, 1>>, <<1, 1>>, Padding_VALID + 1,
                ActivationFunctionType_NONE, 0)),
     OperatorDesc(0, <<0, 1>>, <<0>>,
        Options("Conv2DOptions", <<1, 1>>, <<1, 1>>, Padding_SAME,
                ActivationFunctionType_RELU, 0)),
     OperatorDesc(1, <<1, 1, 0>>, <<1>>,
        Options("Conv2DOptions", <<1, 1>>, <<1, 1>>, Padding_SAME,
                ActivationFunctionType_SIGN_BIT + 1, 0)),
     OperatorDesc(2, <<0, 1, 2>>, <<3>>,
        Options("DepthwiseConv2DOptions", <<2, 1>>, <<1, 2>>, Padding_SAME,
                ActivationFunctionType_RELU, 2)),
     OperatorDesc(3, <<0, 1>>, <<2>>, NoOptions),
     OperatorDesc(3, <<1, -1>>, <<0>>, NoOptions),
     OperatorDesc(4, <<0, 1>>, <<2>>,
        Options("AddOptions", <<0, 0>>, <<0, 0>>, 0,
                ActivationFunctionType_TANH, 0)),
     OperatorDesc(4, <<1, 0>>, <<1>>, NoOptions),
     OperatorDesc(5, <<0>>, <<0>>, NoOptions),
     OperatorDesc(6, <<0, 1>>, <<2>>,
        Options("AddOptions", <<0, 0>>, <<0, 0>>, 0,
                ActivationFunctionType_NONE, 0)),
     OperatorDesc(7, <<0>>, <<1>>, NoOptions),
     OperatorDesc(8, <<0>>, <<1>>, NoOptions),
     OperatorDesc(Len(OperatorCodes), <<0, 1>>, <<0>>, NoOptions)}

SubGraph(tensors, operators) == [tensors |-> tensors, operators |-> operators]

\* The root table; subgraphs is a nullable vector field.
FlatModel(subgraphs, buffers) ==
    [subgraphs |-> subgraphs, buffers |-> buffers,
     operator_codes |-> OperatorCodes]

\* One subgraph holding one tensor and no operator.
TensorModels ==
    {FlatModel(Vec(<<SubGraph(<<t>>, <<>>)>>), StandardBuffers) :
        t \in TypeSweep}
    \cup {FlatModel(Vec(<<SubGraph(<<t>>, <<>>)>>), buffers) :
            t \in FieldSweep, buffers \in BufferTables}
    \cup {FlatModel(Vec(<<SubGraph(<<t>>, <<>>)>>), StandardBuffers) :
            t \in AxisSweep}

\* One subgraph holding up to MaxTensors tensors and up to MaxOps
\* operators: every tensor list without operators, and every operator
\* list over a store of three tensors (GraphOps names tensor 3, one past
\* it) and over a full store that holds every tensor named (an extractor
\* reads only the size of the tensor store); and each convolution of
\* ConvActivationOps alone over the same stores.
StoreSizes == {3, MaxTensors}

GraphModels ==
    {FlatModel(Vec(<<SubGraph(tensors, <<>>)>>), StandardBuffers) :
        tensors \in SeqsUpTo(GraphTensors, MaxTensors)}
    \cup {FlatModel(Vec(<<SubGraph(AlternatingTensors(k), operators)>>),
                    StandardBuffers) :
            k \in StoreSizes, operators \in SeqsUpTo(GraphOps, MaxOps)}
    \cup {FlatModel(Vec(<<SubGraph(AlternatingTensors(k), <<operator>>)>>),
                    StandardBuffers) :
            k \in StoreSizes, operator \in ConvActivationOps}

\* No subgraph (the subgraphs field absent, or present and empty), or
\* several, of varied contents.
SmallSubGraphs ==
    {SubGraph(<<>>, <<>>)}
    \cup {SubGraph(<<t>>, operators) :
            t \in GraphTensors,
            operators \in {<<>>, <<OperatorDesc(3, <<0, 0>>, <<0>>, NoOptions)>>}}

MultiModels ==
    {FlatModel(NullVec, StandardBuffers)}
    \cup {FlatModel(Vec(subgraphs), StandardBuffers) :
            subgraphs \in SeqsUpTo(SmallSubGraphs, MaxSubgraphs) \
                          [1..1 -> SmallSubGraphs]}

(***************************************************************************)
(* The parser as a state machine.                                          *)
(***************************************************************************)
EmptyModel == [tensors |-> <<>>, ops |-> <<>>]

NoModel == [returned |-> FALSE, model |-> EmptyModel]

Init ==
    /\ model_ \in TensorModels \cup GraphModels \cup MultiModels
    /\ result_ = EmptyModel
    /\ pc = "Parse"
    /\ ret = NoModel
    /\ error = ""

\* Line 227.
SubgraphCountOk(n) == n = 1

\* Lines 231 and 235: emplace_back.
EmplaceFront(v, x) == <<x>> \o v

EmplaceBack(v, x) == Append(v, x)

EmplaceBackOp(v, x) == Append(v, x)

subgraph == model_.subgraphs.elems[1]

\* Lines 225-228: line 226 dereferences model_->subgraphs() without a
\* null check (a trap when the field is absent); line 227 is the
\* subgraph-count assertion.
ParseValidate ==
    /\ pc = "Parse"
    /\ IF model_.subgraphs.null
       THEN pc' = "trap" /\ error' = error
       ELSE IF SubgraphCountOk(Len(model_.subgraphs.elems))
            THEN pc' = "build" /\ error' = error
            ELSE /\ pc' = "fatal"
                 /\ error' = "Only 1 subgraph is currently supported."
    /\ UNCHANGED <<model_, result_, ret>>

\* Lines 230-232: one iteration of the tensor loop.
ParseTensorStep ==
    /\ pc = "build"
    /\ Len(result_.tensors) < Len(subgraph.tensors)
    /\ \E out \in ParseTensor(subgraph.tensors[Len(result_.tensors) + 1],
                              model_.buffers) :
         IF out.trap
         THEN pc' = "trap" /\ result_' = result_
         ELSE /\ pc' = pc
              /\ result_' = [result_ EXCEPT
                                !.tensors = EmplaceBack(@, out.tensor)]
    /\ UNCHANGED <<model_, ret, error>>

\* Lines 234-236: one iteration of the operator loop, entered once the
\* tensor loop has finished.
ParseOpStep ==
    /\ pc = "build"
    /\ Len(result_.tensors) = Len(subgraph.tensors)
    /\ Len(result_.ops) < Len(subgraph.operators)
    /\ \E out \in ParseOp(subgraph.operators[Len(result_.ops) + 1],
                          model_.operator_codes, Len(result_.tensors)) :
         IF out.trap
         THEN pc' = "trap" /\ result_' = result_ /\ error' = error
         ELSE IF out.fatal
              THEN pc' = "fatal" /\ result_' = result_ /\ error' = out.error
              ELSE /\ pc' = pc
                   /\ error' = error
                   /\ result_' = [result_ EXCEPT
                                     !.ops = EmplaceBackOp(@, out.op)]
    /\ UNCHANGED <<model_, ret>>

\* Line 238: the result is moved out to the caller.
ParseReturn ==
    /\ pc = "build"
    /\ Len(result_.tensors) = Len(subgraph.tensors)
    /\ Len(result_.ops) = Len(subgraph.operators)
    /\ pc' = "returned"
    /\ ret' = [returned |-> TRUE, model |-> result_]
    /\ result_' = EmptyModel
    /\ UNCHANGED <<model_, error>>

Next == ParseValidate \/ ParseTensorStep \/ ParseOpStep \/ ParseReturn

Spec == Init /\ [][Next]_vars

(***************************************************************************)
(* Properties.                                                             *)
(***************************************************************************)
\* The Model under construction, or the Model handed to the caller.
Tensors == IF ret.returned THEN ret.model.tensors ELSE result_.tensors

Ops == IF ret.returned THEN ret.model.ops ELSE result_.ops

OneSubgraph == Len(model_.subgraphs.elems) = 1

Declared(i) == subgraph.tensors[i]

DeclaredOp(i) == subgraph.operators[i]

\* Declared operator i names an entry of the operator-code table.
HasOpcode(i) == DeclaredOp(i).opcode_index + 1 \in DOMAIN model_.operator_codes

\* The effective kind of declared operator i, as the schema defines it.
EffectiveKind(i) ==
    LET c == model_.operator_codes[DeclaredOp(i).opcode_index + 1] IN
    IF c.builtin_code >= c.deprecated_builtin_code
    THEN c.builtin_code ELSE c.deprecated_builtin_code

SupportedKinds ==
    {BuiltinOperator_CONV_2D, BuiltinOperator_DEPTHWISE_CONV_2D,
     BuiltinOperator_PAD, BuiltinOperator_ADD}

KindName(k) ==
    CASE k = BuiltinOperator_CONV_2D -> "Conv2DOp"
      [] k = BuiltinOperator_DEPTHWISE_CONV_2D -> "DepthwiseConv2DOp"
      [] k = BuiltinOperator_PAD -> "PadOp"
      [] k = BuiltinOperator_ADD -> "AddOp"
      [] OTHER -> "unsupported"

Slot(k) == [in_model |-> TRUE, slot |-> k]

InRange(v, i) == i + 1 \in DOMAIN v /\ v[i + 1] \in 0..(Len(Tensors) - 1)

\* C1: when the parse of a one-subgraph input returns, the Model has as
\* many tensors as the subgraph declares, and slot i holds the tensor made
\* from declared tensor i (it is a tensor ParseTensor makes of that
\* descriptor, and carries its name), with rank equal to the length of the
\* declared shape.
C1_TensorsMatchDeclared ==
    ret.returned =>
        /\ OneSubgraph
        /\ Len(ret.model.tensors) = Len(subgraph.tensors)
        /\ \A i \in 1..Len(ret.model.tensors) :
              /\ [trap |-> FALSE, tensor |-> ret.model.tensors[i]]
                    \in ParseTensor(Declared(i), model_.buffers)
              /\ ret.model.tensors[i].name = Declared(i).name.str
              /\ Len(ret.model.tensors[i].shape) = Len(Declared(i).shape.elems)

C1_Witness ==
    /\ ret.returned
    /\ Len(ret.model.tensors) >= 3
    /\ \E i, j \in 1..Len(ret.model.tensors) :
          /\ i < j
          /\ Declared(i).name # Declared(j).name
          /\ Len(Declared(i).shape.elems) # Len(Declared(j).shape.elems)

\* C2: a materialized tensor whose descriptor declares extents d of length
\* n has n dimensions, dimension j (0-based) has extent d[n-1-j], and every
\* min and stride is 0.
C2_ShapeReversed ==
    \A i \in 1..Len(Tensors) :
        LET d == Declared(i).shape.elems
            s == Tensors[i].shape
            n == Len(d)
        IN  /\ Len(s) = n
            /\ \A j \in 0..(n - 1) :
                  /\ s[j + 1].extent = d[(n - 1 - j) + 1]
                  /\ s[j + 1].min = 0
                  /\ s[j + 1].stride = 0

C2_Witness ==
    \E i \in 1..Len(Tensors) :
        /\ Declared(i).shape.elems = <<1, 2, 3>>
        /\ Tensors[i].shape[1].extent = 3
        /\ Tensors[i].shape[2].extent = 2
        /\ Tensors[i].shape[3].extent = 1

\* C3: the returned Model's operators are the declared operators in
\* order: same count, and operator i is the one built from declared
\* operator i (it is an operator ParseOp builds from that declaration over
\* the Model's tensors); it has the kind of declared operator i (where its
\* operator-code entry exists) and writes the tensor declared operator i
\* names as its output (where that index is in range).
C3_OpsInDeclaredOrder ==
    ret.returned =>
        /\ Len(ret.model.ops) = Len(subgraph.operators)
        /\ \A i \in 1..Len(ret.model.ops) :
              /\ OpBuilt(ret.model.ops[i])
                    \in ParseOp(DeclaredOp(i), model_.operator_codes,
                                Len(ret.model.tensors))
              /\ HasOpcode(i) =>
                    ret.model.ops[i].kind = KindName(EffectiveKind(i))
              /\ InRange(DeclaredOp(i).outputs, 0) =>
                    ret.model.ops[i].output = Slot(DeclaredOp(i).outputs[1])

C3_Witness ==
    /\ ret.returned
    /\ Len(ret.model.ops) >= 2
    /\ ret.model.ops[1].kind # ret.model.ops[2].kind
    /\ ret.model.ops[1].output # ret.model.ops[2].output

\* C4: a materialized tensor has an empty payload when its storage slot is
\* 0, the slot's bytes when the slot is non-zero and carries data, and an
\* empty payload when the slot is non-zero and carries none; and a tensor
\* is never the point of failure on account of a storage slot of the table.
C4_PayloadFollowsSlot ==
    /\ \A i \in 1..Len(Tensors) :
          LET slot == Declared(i).buffer
              exists == slot + 1 \in DOMAIN model_.buffers
              bytes == model_.buffers[slot + 1].data
          IN  /\ slot = 0 => Tensors[i].data = <<>>
              /\ (slot # 0 /\ exists /\ ~bytes.null) =>
                    /\ Tensors[i].data = bytes.elems
                    /\ Len(Tensors[i].data) = Len(bytes.elems)
              /\ (slot # 0 /\ exists /\ bytes.null) => Tensors[i].data = <<>>
    /\ (pc \in {"trap", "fatal"} /\ OneSubgraph
           /\ Len(result_.tensors) < Len(subgraph.tensors)) =>
          LET t == Declared(Len(result_.tensors) + 1) IN
          \/ t.shape.null
          \/ t.name.null
          \/ t.type \notin TensorType_FLOAT32..TensorType_COMPLEX128
          \/ t.buffer + 1 \notin DOMAIN model_.buffers

C4_Witness ==
    /\ \E i \in 1..Len(Tensors) :
          /\ Declared(i).buffer # 0
          /\ Declared(i).buffer + 1 \in DOMAIN model_.buffers
          /\ Len(Tensors[i].data) = 3
    /\ ~model_.buffers[1].data.null

DeclaredPadding ==
    [p \in {Padding_SAME, Padding_VALID} |->
        IF p = Padding_SAME THEN "Same" ELSE "Valid"]

DeclaredActivation ==
    [f \in ActivationFunctionType_NONE..ActivationFunctionType_SIGN_BIT |->
        CASE f = ActivationFunctionType_NONE -> "None"
          [] f = ActivationFunctionType_RELU -> "Relu"
          [] f = ActivationFunctionType_RELU_N1_TO_1 -> "ReluN1To1"
          [] f = ActivationFunctionType_RELU6 -> "Relu6"
          [] f = ActivationFunctionType_TANH -> "Tanh"
          [] f = ActivationFunctionType_SIGN_BIT -> "SignBit"]

\* C6: a materialized operator whose declaration has effective kind
\* CONV_2D and in-range tensor indices is a Conv2DOp whose input, filter
\* and bias are the slots named by input entries 0, 1, 2, whose output is
\* the slot named by output entry 0, and whose stride, dilation, padding
\* and activation are the declared ones.
C6_Conv2DBinding ==
    \A i \in 1..Len(Ops) :
        LET d == DeclaredOp(i)
            o == d.builtin_options
        IN  (/\ HasOpcode(i)
             /\ EffectiveKind(i) = BuiltinOperator_CONV_2D
             /\ \A k \in 0..2 : InRange(d.inputs, k)
             /\ InRange(d.outputs, 0))
            => /\ Ops[i].kind = "Conv2DOp"
               /\ Ops[i].input = Slot(d.inputs[1])
               /\ Ops[i].filter = Slot(d.inputs[2])
               /\ Ops[i].bias = Slot(d.inputs[3])
               /\ Ops[i].output = Slot(d.outputs[1])
               /\ Ops[i].stride = <<o.stride_w, o.stride_h>>
               /\ Ops[i].dilation = <<o.dilation_w_factor, o.dilation_h_factor>>
               /\ o.padding \in DOMAIN DeclaredPadding =>
                     Ops[i].padding = DeclaredPadding[o.padding]
               /\ o.fused_activation_function \in DOMAIN DeclaredActivation =>
                     Ops[i].activation =
                        DeclaredActivation[o.fused_activation_function]

C6_Witness ==
    /\ ret.returned
    /\ Len(ret.model.tensors) = 4
    /\ Len(ret.model.ops) = 1
    /\ DeclaredOp(1).inputs = <<0, 1, 2>>
    /\ DeclaredOp(1).outputs = <<3>>
    /\ ret.model.ops[1] =
          [kind |-> "Conv2DOp", input |-> Slot(0), filter |-> Slot(1),
           bias |-> Slot(2), output |-> Slot(3), stride |-> <<1, 1>>,
           dilation |-> <<1, 1>>, padding |-> "Same", activation |-> "None"]

\* C7: with a subgraph count other than 1 the parse ends in the fatal
\* error of line 227 with nothing materialized and no Model returned,
\* whatever the subgraphs hold.
C7_SubgraphCountFatal ==
    ~OneSubgraph =>
        /\ pc \in {"Parse", "fatal"}
        /\ pc = "fatal" => error = "Only 1 subgraph is currently supported."
        /\ result_ = EmptyModel
        /\ ret = NoModel

\* C8: when some declared operator has effective kind CUSTOM or a builtin
\* kind outside CONV_2D, DEPTHWISE_CONV_2D, PAD, ADD, that operator is never
\* materialized, the parse stops at it with a fatal error, and no Model is
\* returned.
C8_UnsupportedKindFatal ==
    OneSubgraph =>
        \A i \in 1..Len(subgraph.operators) :
            (HasOpcode(i) /\ EffectiveKind(i) \notin SupportedKinds) =>
                /\ ret = NoModel
                /\ pc # "returned"
                /\ Len(result_.ops) < i
                /\ (Len(result_.ops) = i - 1
                      /\ Len(result_.tensors) = Len(subgraph.tensors))
                   => pc \in {"Parse", "build", "fatal"}

C8_Witness ==
    /\ pc = "fatal"
    /\ error \in {"Unsupported op AVERAGE_POOL_2D", "Unsupported op CUMSUM"}
    /\ Len(result_.tensors) >= 1
    /\ Len(result_.ops) = 1
    /\ ret = NoModel

\* The tensor references an operator holds.
OpRefs(o) ==
    CASE o.kind \in {"Conv2DOp", "DepthwiseConv2DOp"} ->
             {o.input, o.filter, o.bias, o.output}
      [] o.kind = "PadOp" -> {o.input, o.padding, o.output}
      [] o.kind = "AddOp" -> {o.input1, o.input2, o.output}

\* The entries of its index lists the extractor of declared operator i reads.
ReadsInRange(i) ==
    LET d == DeclaredOp(i)
        last == IF EffectiveKind(i) \in {BuiltinOperator_CONV_2D,
                                         BuiltinOperator_DEPTHWISE_CONV_2D}
                THEN 2 ELSE 1
    IN  /\ \A k \in 0..last : InRange(d.inputs, k)
        /\ InRange(d.outputs, 0)

\* C9: a declared operator of a supported kind whose extractor reads an
\* out-of-range tensor index is never materialized, and every tensor
\* reference held by an operator of the Model points to a tensor of the
\* Model's tensor collection.
C9_OutOfRangeIndexFatal ==
    OneSubgraph =>
        /\ \A i \in 1..Len(subgraph.operators) :
              (HasOpcode(i) /\ EffectiveKind(i) \in SupportedKinds
               /\ ~ReadsInRange(i)
               /\ Len(result_.tensors) = Len(subgraph.tensors))
              => Len(Ops) < i
        /\ \A i \in 1..Len(Ops) :
              \A r \in OpRefs(Ops[i]) :
                  r.in_model /\ r.slot \in 0..(Len(Tensors) - 1)

\* C10: a wire code outside the recognized element types, padding modes
\* and activation kinds never yields a value: no tensor, and no operator
\* with valid tensor references, is materialized from it, and a
\* recognized code yields an internal value.
C10_TranslatorsTotal ==
    /\ \A i \in 1..Len(Tensors) :
          /\ Declared(i).type \in TensorType_FLOAT32..TensorType_COMPLEX128
          /\ Tensors[i].type \in NNTypes
    /\ \A i \in {k \in 1..Len(Ops) : \A r \in OpRefs(Ops[k]) : r.in_model} :
          LET o == DeclaredOp(i).builtin_options IN
          /\ Ops[i].kind \in {"Conv2DOp", "DepthwiseConv2DOp"} =>
                /\ o.padding \in Padding_SAME..Padding_VALID
                /\ Ops[i].padding \in Paddings
          /\ Ops[i].kind \in {"Conv2DOp", "DepthwiseConv2DOp", "AddOp"} =>
                /\ o.fused_activation_function \in
                      ActivationFunctionType_NONE..ActivationFunctionType_SIGN_BIT
                /\ Ops[i].activation \in ActivationFunctions

====
